---- MODULE Spec2Model ----
(***************************************************************************)
(* Ensemble risk scoring (routes/analyze.py) and the online-learning loop  *)
(* (services/online_learning_classifier.py, services/training_service.py)  *)
(* of ThreatDetector-AI.                                                   *)
(*                                                                         *)
(* Feature vectors are represented by their dimension, the fitted state of *)
(* the scikit-learn objects by their dimension and the number of samples   *)
(* they have absorbed (StandardScaler.n_samples_seen_, the SGD update      *)
(* count).  Scores are integers in hundredths; a risk score is an integer  *)
(* in millionths, so that the weighted sum and the boosts are exact.       *)
(***************************************************************************)
EXTENDS Integers, Sequences, FiniteSets, TLC

VARIABLES
    samples,      \* table training_data: sequence of rows, the index is the id
    metadata,     \* table model_metadata: set of rows
    is_training,  \* TrainingService.is_training
    clf,          \* the OnlineLearningClassifier singleton
    snapshot,     \* the most recently modified online_model_*.pkl, or NoSnapshot
    pc,           \* per train_on_new_data invocation: "idle" or "sleep" (line 104)
    run,          \* per invocation: the locals of a suspended train_on_new_data
    last,         \* history: what the last handler step called and returned
    inp,          \* analyze_threat: the classifier outputs of the request
    res,          \* analyze_threat: the response
    allow_training_data,  \* table accounts: the consent column, per account
    background_tasks      \* store_training_sample tasks scheduled, not yet run

vars == <<samples, metadata, is_training, clf, snapshot, pc, run, last, inp, res,
          allow_training_data, background_tasks>>

privacy == <<allow_training_data, background_tasks>>

------------------------------------------------------------------------------
(* Bounds *)

MaxSamples == 2
MaxTrained == 2
NumRuns == 2
MaxBatch == 2
MaxTasks == 2

Procs == 1..NumRuns
Accounts == {"acct1", "acct2"}
NoAccount == "null"
\* the account_id arguments of train_on_new_data: the global scope and one account
Scopes == {NoAccount, "acct1"}
None == "None"
\* Python None for a dimension and a version string
NoDim == 0
NoVersion == <<"None", 0>>

\* extract_features: 3 frozen confidences + 16 engineered features
FeatureDim == 19
Dims == {17, FeatureDim}

\* the analyze_text route stores predict's feature_vector, of FeatureDim entries
StoreDims == {FeatureDim}
StoreLabels == {"safe"}
FeedbackLabels == {"phishing"}

Min(a, b) == IF a < b THEN a ELSE b

------------------------------------------------------------------------------
(* OnlineLearningClassifier *)

\* __init__, lines 41-50: the fields before _load_model runs
FreshClassifier ==
    [model |-> None, scaler |-> None, feature_dim |-> NoDim,
     model_version |-> NoVersion, training_samples |-> 0, last_trained |-> NoVersion,
     model_dim |-> NoDim, model_seen |-> 0,
     scaler_dim |-> NoDim, scaler_seen |-> 0]

\* the model directory holds no online_model_*.pkl
NoSnapshot == [exists |-> FALSE]

\* the keys _load_model reads with model_data[...], in the order of lines 323-327
SnapshotKeys == <<"model", "scaler", "feature_dim", "model_version", "training_samples">>

\* _load_model: no file, or the fields of the latest file, assigned one by one
\* (lines 323-329) until a key is missing; snap.present is the number of
\* leading keys the unpickled dictionary holds, 0 for a file that does not
\* unpickle to a dictionary at all
LoadModel(c, snap) ==
    IF ~snap.exists THEN c
    ELSE LET c1 == IF snap.present >= 1
                   THEN [c EXCEPT !.model = snap.model, !.model_dim = snap.model_dim,
                                  !.model_seen = snap.model_seen]
                   ELSE c
             c2 == IF snap.present >= 2
                   THEN [c1 EXCEPT !.scaler = snap.scaler,
                                   !.scaler_dim = snap.scaler_dim,
                                   !.scaler_seen = snap.scaler_seen]
                   ELSE c1
             c3 == IF snap.present >= 3
                   THEN [c2 EXCEPT !.feature_dim = snap.feature_dim] ELSE c2
             c4 == IF snap.present >= 4
                   THEN [c3 EXCEPT !.model_version = snap.model_version] ELSE c3
         IN  IF snap.present >= 5
             THEN [c4 EXCEPT !.training_samples = snap.training_samples,
                             !.last_trained = snap.last_trained]
             ELSE c4

\* _initialize_model: a new unfitted SGDClassifier and StandardScaler
InitializeModel(c, dim) ==
    [c EXCEPT !.feature_dim = dim,
              !.model = "unfit", !.model_dim = NoDim, !.model_seen = 0,
              !.scaler = "unfit", !.scaler_dim = NoDim, !.scaler_seen = 0,
              !.model_version = <<"v0_init", 0>>]

\* f"v{self.training_samples}_{self.last_trained.strftime('%Y%m%d%H%M')}": the
\* minute suffix is left out, the counter alone tells the versions of one process apart
VersionOf(n) == <<"v", n>>

\* the rows of X all have the same length
Rectangular(dims) == \A i, j \in 1..Len(dims) : dims[i] = dims[j]

\* faulty variant: a batch of another dimension initializes the model anew
FitInitOnMismatch(c, dim) ==
    IF c.model = None \/ c.feature_dim # dim THEN InitializeModel(c, dim) ELSE c

\* partial_fit lines 250-252: initialize the model if needed
FitInit(c, dim) == IF c.model = None THEN InitializeModel(c, dim) ELSE c

\* StandardScaler.partial_fit validates the number of features of a fitted scaler
ScalerRejects(c, dim) == c.scaler = "fit" /\ c.scaler_dim # dim

\* partial_fit lines 254-261: fit_transform on a new scaler, else partial_fit
FitScaler(c, dim, n) ==
    IF c.scaler = None
    THEN [c EXCEPT !.scaler = "fit", !.scaler_dim = dim, !.scaler_seen = n]
    ELSE [c EXCEPT !.scaler = "fit", !.scaler_dim = dim,
                   !.scaler_seen = c.scaler_seen + n]

\* SGDClassifier.partial_fit validates the number of features of a fitted model
SgdRejects(c, dim) == c.model = "fit" /\ c.model_dim # dim

\* partial_fit line 268: one incremental update of the weights
FitSgd(c, dim, n) ==
    [c EXCEPT !.model = "fit", !.model_dim = dim, !.model_seen = c.model_seen + n]

\* faulty variant: the counter counts calls, not samples
FitStatsCountsCalls(c, n) ==
    [c EXCEPT !.training_samples = c.training_samples + 1,
              !.last_trained = VersionOf(c.training_samples + 1),
              !.model_version = VersionOf(c.training_samples + 1)]

\* partial_fit lines 270-273: counters, timestamp, version
FitStats(c, n) ==
    [c EXCEPT !.training_samples = c.training_samples + n,
              !.last_trained = VersionOf(c.training_samples + n),
              !.model_version = VersionOf(c.training_samples + n)]

\* partial_fit(X, y): dims are the row lengths of X; sgdFails is any error the
\* library raises in SGDClassifier.partial_fit besides the feature-count check.
\* The result carries the classifier afterwards and whether the call raised.
PartialFit(c, dims, sgdFails) ==
    IF ~Rectangular(dims) THEN [clf |-> c, raised |-> TRUE]
    ELSE LET dim == dims[1]
             n == Len(dims)
             c1 == FitInit(c, dim)
         IN  IF ScalerRejects(c1, dim) THEN [clf |-> c1, raised |-> TRUE]
             ELSE LET c2 == FitScaler(c1, dim, n)
                  IN  IF SgdRejects(c2, dim) \/ sgdFails
                      THEN [clf |-> c2, raised |-> TRUE]
                      ELSE [clf |-> FitStats(FitSgd(c2, dim, n), n),
                            raised |-> FALSE]

\* save_model: the pickled dictionary, with every key
SnapshotOf(c) ==
    [exists |-> TRUE, present |-> Len(SnapshotKeys), model |-> c.model, scaler |-> c.scaler,
     feature_dim |-> c.feature_dim, model_version |-> c.model_version,
     training_samples |-> c.training_samples, last_trained |-> c.last_trained,
     model_dim |-> c.model_dim, model_seen |-> c.model_seen,
     scaler_dim |-> c.scaler_dim, scaler_seen |-> c.scaler_seen]

\* predict line 201-202: transform runs outside the try block
TransformRaises(c) ==
    c.scaler # None /\ (c.scaler = "unfit" \/ c.scaler_dim # FeatureDim)

\* predict lines 205-220: the guarded model.predict / predict_proba
ModelPredictRaises(c) ==
    c.model = None \/ c.model = "unfit" \/ c.model_dim # FeatureDim

\* predict line 234
ModelStatus(c) == IF c.model # None THEN "online" ELSE "static_only"

\* predict(text): the classifier afterwards and the returned dictionary
PredictResult(c) ==
    LET c1 == IF c.model = None THEN InitializeModel(c, FeatureDim) ELSE c
    IN  IF TransformRaises(c1)
        THEN [clf |-> c1, raised |-> TRUE, intent |-> None, model_status |-> None]
        ELSE [clf |-> c1, raised |-> FALSE,
              intent |-> IF ModelPredictRaises(c1) THEN "static" ELSE "online",
              model_status |-> ModelStatus(c1)]

------------------------------------------------------------------------------
(* TrainingService *)

NoRun == [account |-> NoAccount, batch_size |-> 0, fetched |-> <<>>, i |-> 0,
          trained_count |-> 0, batch_count |-> 0]

NoReturn == [status |-> "none", samples_trained |-> 0, batches_processed |-> 0]

\* what one handler step called and returned: the account_id argument of
\* train_on_new_data, the ids and dimensions of the rows
\* given to partial_fit, the label given with each (y) and their number
\* (len(X)), whether it raised, the rows marked trained, whether
\* save_model ran, the returned status, and for predict whether it raised and
\* the returned intent source and model_status; for a successful retraining
\* apply_feedback whether it directly follows another one for the same record,
\* and training_samples before the first of them
NoCall ==
    [op |-> "none", account |-> NoAccount,
     fit |-> {}, fitdims |-> {}, fitlabels |-> {}, fitsize |-> 0,
     fitRaised |-> FALSE,
     marked |-> {}, saved |-> FALSE, returned |-> NoReturn,
     raised |-> FALSE, intent |-> None, model_status |-> None,
     twice |-> FALSE, base |-> 0]

\* the dictionary a return statement gives back
Returned(call, status, n) ==
    [call EXCEPT !.returned = [status |-> status, samples_trained |-> n,
                               batches_processed |-> 0]]

\* lines 140-149: the dictionary of a successful run
Succeeded(call, r) ==
    [call EXCEPT !.returned = [status |-> "success",
                               samples_trained |-> r.trained_count,
                               batches_processed |-> r.batch_count]]

\* line 49: the guard of train_on_new_data
GuardRejects(flag) == flag

\* faulty variant: the guard's return sits inside the try statement, so the finally
\* clause clears the flag of the run in flight
FlagAlwaysCleared(passedGuard, flag) == FALSE

\* faulty variant: no finally clause, the flag is never cleared
FlagNeverCleared(passedGuard, flag) == flag

\* lines 49-53 return before the try statement; the finally clause of line 158
\* runs for every return inside it
FlagAfterReturn(passedGuard, flag) == IF passedGuard THEN FALSE ELSE flag

\* faulty variant: the query without .eq('consent_verified', True)
SelectedWithoutConsent(row, account) ==
    /\ row.trained = FALSE
    /\ (account # NoAccount => row.account = account)

\* lines 60-63: the filters of the query
Selected(row, account) ==
    /\ row.trained = FALSE
    /\ row.consent_verified = TRUE
    /\ (account # NoAccount => row.account = account)

RECURSIVE SelectIds(_, _, _)
\* the ids of the selected rows from id k on, in creation order (line 66)
SelectIds(tbl, account, k) ==
    IF k > Len(tbl) THEN <<>>
    ELSE IF Selected(tbl[k], account)
         THEN <<k>> \o SelectIds(tbl, account, k + 1)
         ELSE SelectIds(tbl, account, k + 1)

\* lines 66-67: limit(max_samples).order('created_at'), rows copied at fetch
Query(tbl, account, max_samples) ==
    LET ids == SelectIds(tbl, account, 1)
        n == Min(Len(ids), max_samples)
    IN  [k \in 1..n |-> [id |-> ids[k], row |-> tbl[ids[k]]]]

\* faulty variant: the slice runs one row past the batch, so that consecutive
\* batches overlap
BatchOfOverlapping(r) ==
    SubSeq(r.fetched, r.i, Min(r.i + r.batch_size, Len(r.fetched)))

\* line 83: samples[i:i + batch_size], with i counted from 1
BatchOf(r) == SubSeq(r.fetched, r.i, Min(r.i + r.batch_size - 1, Len(r.fetched)))

IdsOf(batch) == {batch[k].id : k \in 1..Len(batch)}

\* line 87: y, the label of each fetched row, with the row's id
LabelsOf(batch) == {<<batch[k].id, batch[k].row.label>> : k \in 1..Len(batch)}

DimsOf(batch) == [k \in 1..Len(batch) |-> batch[k].row.dim]

\* lines 94-98: update(...).in_('id', sample_ids)
MarkTrained(tbl, ids, version) ==
    [k \in 1..Len(tbl) |->
        IF k \in ids THEN [tbl[k] EXCEPT !.trained = TRUE, !.model_version = version]
        ELSE tbl[k]]

\* faulty variant: the per-account branch also serves the global scope, where
\* eq('account_id', 'None') matches no row
DeactivateAccountsOnly(md, account) ==
    {IF account # NoAccount /\ m.account = account /\ m.is_active
     THEN [m EXCEPT !.is_active = FALSE] ELSE m : m \in md}

\* lines 126-133: deactivate the active rows of the scope
Deactivate(md, account) ==
    {IF m.account = account /\ m.is_active THEN [m EXCEPT !.is_active = FALSE] ELSE m
        : m \in md}

\* faulty variant: the row is built before the batches, from the counters of
\* a classifier that has not been trained yet
MetadataRowStale(account, c) ==
    [account |-> account, model_version |-> NoVersion,
     training_samples |-> 0, feature_dim |-> c.feature_dim,
     is_active |-> TRUE]

\* lines 110-123: the new model_metadata row
MetadataRow(account, c) ==
    [account |-> account, model_version |-> c.model_version,
     training_samples |-> c.training_samples, feature_dim |-> c.feature_dim,
     is_active |-> TRUE]

\* invocation p of train_on_new_data ends
Return(p) ==
    /\ pc' = [pc EXCEPT ![p] = "idle"]
    /\ run' = [run EXCEPT ![p] = NoRun]

\* lines 83-104: one pass of the batch loop, up to the sleep or to the except clause
BatchStep(p, r, fault, op, flagOnSleep) ==
    LET batch == BatchOf(r)
        ids == IdsOf(batch)
        pf == PartialFit(clf, DimsOf(batch), fault = "fit")
        call == [NoCall EXCEPT !.op = op, !.account = r.account, !.fit = ids,
                               !.fitdims = {batch[k].row.dim : k \in 1..Len(batch)},
                               !.fitlabels = LabelsOf(batch),
                               !.fitsize = Len(batch),
                               !.fitRaised = pf.raised]
    IN  /\ clf' = pf.clf
        /\ UNCHANGED <<metadata, snapshot>>
        /\ IF pf.raised \/ fault = "mark"
           THEN /\ Return(p)
                /\ is_training' = FlagAfterReturn(TRUE, is_training)
                /\ UNCHANGED samples
                /\ last' = Returned(call, "error", 0)
           ELSE /\ samples' = MarkTrained(samples, ids, pf.clf.model_version)
                /\ run' = [run EXCEPT ![p] =
                            [r EXCEPT !.i = r.i + r.batch_size,
                                      !.trained_count = r.trained_count + Len(batch),
                                      !.batch_count = r.batch_count + 1]]
                /\ pc' = [pc EXCEPT ![p] = "sleep"]
                /\ is_training' = flagOnSleep
                /\ last' = [call EXCEPT !.marked = ids]

\* lines 106-149: save the model, replace the active metadata row, return
FinishStep(p, r, fault) ==
    LET call == [NoCall EXCEPT !.op = "train_resume", !.account = r.account]
        row == MetadataRow(r.account, clf)
        saved == [call EXCEPT !.saved = TRUE]
    IN  /\ UNCHANGED <<samples, clf>>
        /\ Return(p)
        /\ is_training' = FlagAfterReturn(TRUE, is_training)
        /\ IF fault = "save"
           THEN /\ UNCHANGED <<snapshot, metadata>>
                /\ last' = Returned(call, "error", 0)
           ELSE /\ snapshot' = SnapshotOf(clf)
                /\ IF fault = "deactivate"
                   THEN /\ UNCHANGED metadata
                        /\ last' = Returned(saved, "error", 0)
                   ELSE IF fault = "insert"
                   THEN /\ metadata' = Deactivate(metadata, r.account)
                        /\ last' = Returned(saved, "error", 0)
                   ELSE /\ metadata' = Deactivate(metadata, r.account) \cup {row}
                        /\ last' = Succeeded(saved, r)

\* the rows still to be fitted by the suspended runs
Pending ==
    LET left(p) == IF pc[p] = "sleep" /\ run[p].i <= Len(run[p].fetched)
                   THEN Len(run[p].fetched) - run[p].i + 1 ELSE 0
        RECURSIVE sum(_)
        sum(S) == IF S = {} THEN 0
                  ELSE LET q == CHOOSE q \in S : TRUE IN left(q) + sum(S \ {q})
    IN  sum(Procs)

\* where the first step of a run can fail: the query, the library fit, the update
StartFaults == {"none", "query", "fit", "mark"}

\* lines 49-53: the call is turned away, a run is in flight
Rejected(p) ==
    /\ Return(p)
    /\ is_training' = FlagAfterReturn(FALSE, is_training)
    /\ last' = Returned([NoCall EXCEPT !.op = "train_start"],
                        "already_training", 0)
    /\ UNCHANGED <<samples, metadata, clf, snapshot>>

\* lines 55-104: a run that passed the guard, up to its first sleep or return
StartRun(p, account, batch_size, max_samples, fault) ==
    LET fetched == Query(samples, account, max_samples)
        r == [account |-> account, batch_size |-> batch_size,
              fetched |-> fetched, i |-> 1,
              trained_count |-> 0, batch_count |-> 0]
        call == [NoCall EXCEPT !.op = "train_start", !.account = account]
    IN  /\ clf.scaler_seen + Len(fetched) <= MaxTrained
        /\ IF fault = "query"
           THEN /\ Return(p)
                /\ is_training' = FlagAfterReturn(TRUE, TRUE)
                /\ last' = Returned(call, "error", 0)
                /\ UNCHANGED <<samples, metadata, clf, snapshot>>
           ELSE IF Len(fetched) = 0
           THEN /\ Return(p)
                /\ is_training' = FlagAfterReturn(TRUE, TRUE)
                /\ last' = Returned(call, "no_data", 0)
                /\ UNCHANGED <<samples, metadata, clf, snapshot>>
           ELSE BatchStep(p, r, fault, "train_start", TRUE)

\* train_on_new_data from its call to the first sleep or return
TrainStart(p) ==
    /\ pc[p] = "idle"
    /\ UNCHANGED <<inp, res, privacy>>
    /\ IF GuardRejects(is_training)
       THEN Rejected(p)
       ELSE \E account \in Scopes, batch_size \in 1..MaxBatch,
               max_samples \in 1..MaxSamples, fault \in StartFaults :
            StartRun(p, account, batch_size, max_samples, fault)

\* where a later step can fail: the fit, the update, the snapshot write, the
\* two metadata writes
ResumeFaults == {"none", "fit", "mark", "save", "deactivate", "insert"}

\* lines 82-149: the next batch, or the end of the run after the last one
ResumeRun(p, fault) ==
    IF run[p].i <= Len(run[p].fetched)
    THEN BatchStep(p, run[p], fault, "train_resume", is_training)
    ELSE FinishStep(p, run[p], fault)

\* train_on_new_data from the end of a sleep to the next sleep or return
TrainResume(p) ==
    /\ pc[p] = "sleep"
    /\ UNCHANGED <<inp, res, privacy>>
    /\ \E fault \in ResumeFaults : ResumeRun(p, fault)

\* store_training_sample: insert one row; the insert can fail
StoreTrainingSample(account, dim, label, consent) ==
    /\ Len(samples) < MaxSamples
    /\ \/ /\ samples' = Append(samples,
                [account |-> account, dim |-> dim, label |-> label,
                 source |-> "inference", feedback_corrected |-> FALSE,
                 consent_verified |-> consent, trained |-> FALSE,
                 model_version |-> clf.model_version])
          /\ last' = Returned([NoCall EXCEPT !.op = "store"], "success", 0)
       \/ /\ UNCHANGED samples
          /\ last' = Returned([NoCall EXCEPT !.op = "store"], "error", 0)
    /\ UNCHANGED <<metadata, is_training, clf, snapshot, pc, run, inp, res>>

\* faulty variant: the row is stamped with the version read before the fit
StampOfStale(before, after) == before.model_version

\* line 296: the version stamped on the row is train_stats['model_version']
StampOf(before, after) == after.model_version

\* the last step was a successful retraining apply_feedback for record id,
\* itself not the second of a pair
Repeated(id) ==
    /\ last.op = "apply_feedback" /\ last.fit = {id}
    /\ last.returned.status = "success" /\ last.saved
    /\ ~last.twice

\* lines 267-276: the update of the row
Corrected(row, label) ==
    [row EXCEPT !.label = label, !.feedback_corrected = TRUE,
                !.trained = FALSE, !.source = "feedback"]

\* line 285: whether apply_feedback goes on to fit the row
FeedbackFits(retrain, flag) == retrain

\* where apply_feedback can fail
FeedbackFaults == {"none", "update", "fit", "mark", "save"}

\* apply_feedback: it has no await, so it runs whole between two steps of a run
ApplyFeedback(id, label, retrain, fault) ==
    LET call == [NoCall EXCEPT !.op = "apply_feedback"]
    IN
    /\ UNCHANGED <<metadata, is_training, pc, run, inp, res, privacy>>
    /\ IF fault = "update" \/ id > Len(samples)
       THEN /\ UNCHANGED <<samples, clf, snapshot>>
            /\ last' = Returned(call, "error", 0)
       ELSE LET tbl == [samples EXCEPT ![id] = Corrected(samples[id], label)]
            IN  IF ~FeedbackFits(retrain, is_training)
                THEN /\ samples' = tbl
                     /\ UNCHANGED <<clf, snapshot>>
                     /\ last' = Returned(call, "success", 0)
                ELSE LET pf == PartialFit(clf, <<tbl[id].dim>>, fault = "fit")
                         fitted == [call EXCEPT !.fit = {id},
                                                !.fitdims = {tbl[id].dim},
                                                !.fitlabels = {<<id, tbl[id].label>>},
                                                !.fitsize = 1,
                                                !.fitRaised = pf.raised]
                         marked == [fitted EXCEPT !.marked = {id}]
                     IN  /\ clf.scaler_seen + 1 + Pending <= MaxTrained
                         /\ clf' = pf.clf
                         /\ IF pf.raised \/ fault = "mark"
                            THEN /\ samples' = tbl
                                 /\ UNCHANGED snapshot
                                 /\ last' = Returned(fitted, "error", 0)
                            ELSE /\ samples' = MarkTrained(tbl, {id}, StampOf(clf, pf.clf))
                                 /\ IF fault = "save"
                                    THEN /\ UNCHANGED snapshot
                                         /\ last' = Returned(marked, "error", 0)
                                    ELSE /\ snapshot' = SnapshotOf(pf.clf)
                                         /\ last' = Returned(
                                              [marked EXCEPT
                                                 !.saved = TRUE,
                                                 !.twice = Repeated(id),
                                                 !.base = IF Repeated(id) THEN last.base
                                                          ELSE clf.training_samples],
                                              "success", 0)

\* OnlineLearningClassifier.predict, called by the analyze_text route
Predict ==
    LET pr == PredictResult(clf)
    IN  /\ clf' = pr.clf
        /\ last' = [NoCall EXCEPT !.op = "predict",
                                  !.raised = pr.raised, !.intent = pr.intent,
                                  !.model_status = pr.model_status]
        /\ UNCHANGED <<samples, metadata, is_training, snapshot, pc, run, inp, res, privacy>>

\* direct calls of the classifier's methods, with any batch

\* the row lengths of the batches X given to partial_fit
Batches == UNION {[1..n -> Dims] : n \in 1..MaxBatch}

\* the largest of the classifier's three sample counts
Absorbed(c) ==
    CHOOSE n \in {c.scaler_seen, c.model_seen, c.training_samples} :
        \A m \in {c.scaler_seen, c.model_seen, c.training_samples} : m <= n

\* classifier.partial_fit(X, y)
PartialFitCall(dims, sgdFails) ==
    LET pf == PartialFit(clf, dims, sgdFails)
    IN  /\ Absorbed(clf) + Len(dims) <= MaxTrained
        /\ clf' = pf.clf
        /\ last' = [NoCall EXCEPT !.op = "partial_fit",
                                  !.fitdims = {dims[k] : k \in 1..Len(dims)},
                                  !.fitsize = Len(dims),
                                  !.fitRaised = pf.raised]
        /\ UNCHANGED <<samples, metadata, is_training, snapshot, pc, run, inp, res, privacy>>

\* classifier.save_model(); the write can fail before the file is opened, or
\* in pickle.dump, which leaves a truncated file as the latest one
SaveModelCall ==
    /\ \/ /\ snapshot' = SnapshotOf(clf)
          /\ last' = [NoCall EXCEPT !.op = "save_model", !.saved = TRUE]
       \/ /\ UNCHANGED snapshot
          /\ last' = [NoCall EXCEPT !.op = "save_model", !.raised = TRUE]
       \/ /\ snapshot' = [SnapshotOf(clf) EXCEPT !.present = 0]
          /\ last' = [NoCall EXCEPT !.op = "save_model", !.raised = TRUE]
    /\ UNCHANGED <<samples, metadata, is_training, clf, pc, run, inp, res, privacy>>

\* the model directory receives an online_model_*.pkl that save_model did not
\* write whole: a dictionary that holds only the first k keys
ForeignSnapshot ==
    /\ snapshot.exists
    /\ \E k \in 0..(Len(SnapshotKeys) - 1) : snapshot' = [snapshot EXCEPT !.present = k]
    /\ last' = [NoCall EXCEPT !.op = "foreign_snapshot"]
    /\ UNCHANGED <<samples, metadata, is_training, clf, pc, run, inp, res, privacy>>

\* a new process constructs the singleton: __init__ and _load_model; when
\* the file cannot be opened (line 334) the fields stay as __init__ set them
Restart ==
    /\ \/ clf' = LoadModel(FreshClassifier, snapshot)
       \/ clf' = FreshClassifier
    /\ last' = [NoCall EXCEPT !.op = "restart"]
    /\ UNCHANGED <<samples, metadata, is_training, snapshot, pc, run, inp, res, privacy>>

------------------------------------------------------------------------------
(* routes/ml.py: POST /analyze and POST /privacy *)

\* the API key's user_id: an account, or none
Users == Accounts \cup {NoAccount}

\* lines 132-139: whether the request schedules a store_training_sample task;
\* consent is the allow_training_data the query of line 134 returned
SchedulesStore(store_for_training, user, consent) ==
    store_for_training /\ user # NoAccount /\ consent

\* lines 143-152: the arguments of the scheduled store_training_sample
StoreTask(user, dim, label) ==
    [account |-> user, dim |-> dim, label |-> label, consent_verified |-> TRUE]

\* analyze_text: predict, the consent query, the scheduling; an exception of
\* predict or of the query becomes HTTP 500
AnalyzeText(user, store_for_training, queryFails) ==
    LET pr == PredictResult(clf)
        call == [NoCall EXCEPT !.op = "analyze_text", !.account = user,
                               !.intent = pr.intent,
                               !.model_status = pr.model_status]
    IN  /\ clf' = pr.clf
        /\ UNCHANGED <<samples, metadata, is_training, snapshot, pc, run, inp, res,
                       allow_training_data>>
        /\ IF pr.raised \/ (store_for_training /\ user # NoAccount /\ queryFails)
           THEN /\ UNCHANGED background_tasks
                /\ last' = [call EXCEPT !.raised = TRUE]
           ELSE IF SchedulesStore(store_for_training, user,
                                  user # NoAccount /\ allow_training_data[user])
           THEN /\ Len(background_tasks) < MaxTasks
                /\ background_tasks' =
                      Append(background_tasks, StoreTask(user, FeatureDim, "safe"))
                /\ last' = [call EXCEPT !.saved = TRUE]
           ELSE /\ UNCHANGED background_tasks
                /\ last' = call

\* a scheduled task runs after its response was sent: store_training_sample
\* with the arguments fixed when it was scheduled
RunBackgroundTask ==
    /\ background_tasks # <<>>
    /\ LET t == Head(background_tasks)
       IN  StoreTrainingSample(t.account, t.dim, t.label, t.consent_verified)
    /\ background_tasks' = Tail(background_tasks)
    /\ UNCHANGED allow_training_data

\* update_privacy_settings: the update of the account row; it can fail
UpdatePrivacySettings(user, allow) ==
    /\ user \in Accounts
    /\ \/ /\ allow_training_data' = [allow_training_data EXCEPT ![user] = allow]
          /\ last' = Returned([NoCall EXCEPT !.op = "update_privacy",
                                            !.account = user], "success", 0)
       \/ /\ UNCHANGED allow_training_data
          /\ last' = [NoCall EXCEPT !.op = "update_privacy", !.account = user,
                                    !.raised = TRUE]
    /\ UNCHANGED <<samples, metadata, is_training, clf, snapshot, pc, run, inp, res,
                   background_tasks>>

------------------------------------------------------------------------------
(* analyze_threat: the ensemble of routes/analyze.py *)

Classifiers == {"ai", "intent", "style", "url", "keyword"}

\* faulty variant: a keyword weight of 0.18, the table sums to 1.1
WeightsOverOne == [ai |-> 35, intent |-> 35, style |-> 10, url |-> 12, keyword |-> 18]

\* WEIGHTS of routes/analyze_encrypted.py, in hundredths
EncryptedWEIGHTS == [ai |-> 40, intent |-> 30, style |-> 15, url |-> 10, keyword |-> 5]

\* the sum of a weight table
WeightTotal(w) == w.ai + w.intent + w.style + w.url + w.keyword

\* WEIGHTS, in hundredths
WEIGHTS == [ai |-> 35, intent |-> 35, style |-> 10, url |-> 12, keyword |-> 8]

\* intent_threat_map.get(intent, 0.3), in hundredths
intent_threat_map(intent) ==
    CASE intent = "phishing" -> 90
      [] intent = "scam" -> 85
      [] intent = "propaganda" -> 70
      [] intent = "spam" -> 60
      [] intent = "unknown" -> 30
      [] OTHER -> 30

Intents == {"phishing", "scam", "propaganda", "spam", "unknown", "benign"}

\* the scores the classifiers return, in hundredths
AiScores == {0, 79, 80, 90, 100}
UrlScores == {0, 79, 80, 90, 100}
KeywordScores == {0, 50, 79, 80, 90, 100}
StyleScores == {0, 15, 20, 100}

One == 1000000

\* lines 58-70: the AI classifier's contribution, 0.0 when it raised
AiScore(r) == IF "ai" \in r.failed THEN 0 ELSE r.ai_confidence

\* lines 75-95: results["intent"], "unknown" when the classifier raised
IntentResult(r) == IF "intent" \in r.failed THEN "unknown" ELSE r.intent

\* lines 75-95: the intent's contribution, 0.0 when the classifier raised
IntentScore(r) ==
    IF "intent" \in r.failed THEN 0 ELSE intent_threat_map(r.intent)

\* faulty variant: the except clause sets 0.0 like the other four
StyleScoreZeroDefault(r) == IF "style" \in r.failed THEN 0 ELSE 100 - r.style_score

\* lines 100-110: 1 - human-likeness, 0.5 when the classifier raised
StyleScore(r) == IF "style" \in r.failed THEN 50 ELSE 100 - r.style_score

\* lines 115-127
UrlScore(r) == IF "url" \in r.failed THEN 0 ELSE r.url_score

\* lines 132-142
KeywordScore(r) == IF "keyword" \in r.failed THEN 0 ELSE r.keyword_score

\* scores after the five guarded calls
ComponentScores(r) ==
    [ai |-> AiScore(r), intent |-> IntentScore(r), style |-> StyleScore(r),
     url |-> UrlScore(r), keyword |-> KeywordScore(r)]

\* lines 147-153: the weighted sum, in ten-thousandths
WeightedSum(scores) ==
    WEIGHTS.ai * scores.ai + WEIGHTS.intent * scores.intent
    + WEIGHTS.style * scores.style + WEIGHTS.url * scores.url
    + WEIGHTS.keyword * scores.keyword

Bit(b) == IF b THEN 1 ELSE 0

\* faulty variant: the thresholds compared with > instead of >=
IndicatorsStrict(intent, scores) ==
    Bit(intent \in {"phishing", "scam"}) + Bit(scores.url > 80)
    + Bit(scores.keyword > 80) + Bit(scores.ai > 80)

\* lines 156-164
high_risk_indicators(intent, scores) ==
    Bit(intent \in {"phishing", "scam"}) + Bit(scores.url >= 80)
    + Bit(scores.keyword >= 80) + Bit(scores.ai >= 80)

\* faulty variant: the boosts without min(1.0, ...)
BoostUncapped(sum, n) ==
    IF n >= 3 THEN sum * 115
    ELSE IF n >= 2 THEN sum * 108
    ELSE sum * 100

\* lines 167-170: the boost and the cap, in millionths
Boost(sum, n) ==
    IF n >= 3 THEN Min(One, sum * 115)
    ELSE IF n >= 2 THEN Min(One, sum * 108)
    ELSE sum * 100

\* faulty variant: the thresholds compared with > instead of >=
RiskLevelExclusive(score) ==
    IF score > 700000 THEN "HIGH"
    ELSE IF score > 400000 THEN "MEDIUM"
    ELSE "LOW"

\* lines 173-178, on a score in millionths
RiskLevel(score) ==
    IF score >= 700000 THEN "HIGH"
    ELSE IF score >= 400000 THEN "MEDIUM"
    ELSE "LOW"

\* the response of analyze_threat to request r; stored tells whether
\* insert_threat stored the record (not in sandbox mode, and the insert worked)
Analysis(r, stored) ==
    LET scores == ComponentScores(r)
        risk_score == Boost(WeightedSum(scores),
                            high_risk_indicators(IntentResult(r), scores))
    IN  [done |-> TRUE, raised |-> FALSE,
         risk_score |-> risk_score, risk_level |-> RiskLevel(risk_score),
         intent |-> IntentResult(r), component_scores |-> scores,
         stored |-> stored]

Requests ==
    [given : {TRUE}, ai_confidence : AiScores, intent : Intents,
     style_score : StyleScores, url_score : UrlScores,
     keyword_score : KeywordScores, failed : SUBSET Classifiers]

NoRequest == [given |-> FALSE]
NoResponse == [done |-> FALSE]

\* POST /analyze
AnalyzeThreat ==
    /\ inp.given
    /\ ~res.done
    /\ \E stored \in BOOLEAN : res' = Analysis(inp, stored)
    /\ UNCHANGED <<samples, metadata, is_training, clf, snapshot, pc, run, last, inp, privacy>>

------------------------------------------------------------------------------
(* routes/analyze_encrypted.py *)

\* dict.get(key, default)
DictGet(d, key, default) == IF key \in DOMAIN d THEN d[key] ELSE default

\* the result of intent_predict as far as the scores read it; the classifier
\* returns the keys intent and intent_confidence (services/intent_classifier.py
\* lines 44-47), none named confidence
intent_predict(r) == [intent |-> r.intent]

\* lines 92-103: the intent's contribution is intent_result.get("confidence",
\* 0.0), 0.0 when the classifier raised
EncryptedIntentScore(r) ==
    IF "intent" \in r.failed THEN 0
    ELSE DictGet(intent_predict(r), "confidence", 0)

\* lines 92-103: results["intent"]
EncryptedIntentResult(r) ==
    IF "intent" \in r.failed THEN "unknown"
    ELSE DictGet(intent_predict(r), "intent", "unknown")

\* lines 75-148: scores after the five guarded calls; the other four
\* contributions are computed as in analyze.py
EncryptedComponentScores(r) ==
    [ai |-> AiScore(r), intent |-> EncryptedIntentScore(r),
     style |-> StyleScore(r), url |-> UrlScore(r), keyword |-> KeywordScore(r)]

\* lines 153-159: the weighted sum, in ten-thousandths
EncryptedWeightedSum(scores) ==
    EncryptedWEIGHTS.ai * scores.ai + EncryptedWEIGHTS.intent * scores.intent
    + EncryptedWEIGHTS.style * scores.style + EncryptedWEIGHTS.url * scores.url
    + EncryptedWEIGHTS.keyword * scores.keyword

\* lines 162-167, on a score in millionths
EncryptedRiskLevel(score) ==
    IF score >= 800000 THEN "HIGH"
    ELSE IF score >= 500000 THEN "MEDIUM"
    ELSE "LOW"

\* the response of the encrypted analyze_threat to request r; the sum is
\* returned as it is, no boost is applied
EncryptedAnalysis(r, stored) ==
    LET scores == EncryptedComponentScores(r)
        risk_score == EncryptedWeightedSum(scores) * 100
    IN  [done |-> TRUE, raised |-> FALSE,
         risk_score |-> risk_score, risk_level |-> EncryptedRiskLevel(risk_score),
         intent |-> EncryptedIntentResult(r), component_scores |-> scores,
         stored |-> stored]

\* POST /analyze of routes/analyze_encrypted.py
AnalyzeThreatEncrypted ==
    /\ inp.given
    /\ ~res.done
    /\ \E stored \in BOOLEAN : res' = EncryptedAnalysis(inp, stored)
    /\ UNCHANGED <<samples, metadata, is_training, clf, snapshot, pc, run, last, inp, privacy>>

------------------------------------------------------------------------------
(* guard_sdk.client.AnalysisResult *)

\* __init__: the fields read from the response body of POST /analyze
AnalysisResult(data) ==
    [risk_level |-> IF data.done THEN data.risk_level ELSE "unknown",
     risk_score |-> IF data.done THEN data.risk_score ELSE 0]

\* the helpers compare the level with lower-case literals
is_high_risk(r) == r.risk_level = "high"

is_medium_risk(r) == r.risk_level = "medium"

is_low_risk(r) == r.risk_level = "low"

------------------------------------------------------------------------------
(* Specifications *)

\* the state of the service after construction, no snapshot on disk
ServiceInit ==
    /\ samples = <<>>
    /\ metadata = {}
    /\ is_training = FALSE
    /\ snapshot = NoSnapshot
    /\ clf = LoadModel(FreshClassifier, snapshot)
    /\ pc = [p \in Procs |-> "idle"]
    /\ run = [p \in Procs |-> NoRun]
    /\ last = NoCall
    /\ allow_training_data = [a \in Accounts |-> FALSE]
    /\ background_tasks = <<>>

Init ==
    /\ ServiceInit
    /\ inp = NoRequest
    /\ res = NoResponse

\* the training service and the route's predict calls
Next ==
    \/ \E p \in Procs : TrainStart(p)
    \/ \E p \in Procs : TrainResume(p)
    \/ \E a \in Accounts, d \in StoreDims, l \in StoreLabels, c \in BOOLEAN :
          StoreTrainingSample(a, d, l, c) /\ UNCHANGED privacy
    \/ \E id \in 1..MaxSamples, l \in FeedbackLabels, r \in BOOLEAN,
          f \in FeedbackFaults : ApplyFeedback(id, l, r, f)
    \/ Predict

Spec == Init /\ [][Next]_vars

\* the event loop resumes a coroutine whose asyncio.sleep(0.1) has elapsed
FairSpec == Spec /\ \A p \in Procs : WF_vars(TrainResume(p))

\* the batch path alone: samples are stored and runs are started, nothing
\* else fits the model
NextBatch ==
    \/ \E p \in Procs : TrainStart(p)
    \/ \E p \in Procs : TrainResume(p)
    \/ \E a \in Accounts, d \in StoreDims, l \in StoreLabels, c \in BOOLEAN :
          StoreTrainingSample(a, d, l, c) /\ UNCHANGED privacy

SpecBatch == Init /\ [][NextBatch]_vars

\* the batch path and corrections that do not retrain
NextFeedback ==
    \/ NextBatch
    \/ \E id \in 1..MaxSamples, l \in FeedbackLabels, f \in {"none", "update"} :
          ApplyFeedback(id, l, FALSE, f)

SpecFeedback == Init /\ [][NextFeedback]_vars

\* train_on_new_data called with the same arguments every time, all rows in
\* scope and a batch_size above one (the route admits none below 10), and
\* nothing failing but partial_fit itself
TrainStartDefault(p) ==
    /\ pc[p] = "idle"
    /\ UNCHANGED <<inp, res, privacy>>
    /\ IF GuardRejects(is_training)
       THEN Rejected(p)
       ELSE StartRun(p, NoAccount, MaxBatch, MaxSamples, "none")

TrainResumeDefault(p) ==
    /\ pc[p] = "sleep"
    /\ UNCHANGED <<inp, res, privacy>>
    /\ ResumeRun(p, "none")

\* rows of any length are stored and runs are started
NextProgress ==
    \/ \E p \in Procs : TrainStartDefault(p)
    \/ \E p \in Procs : TrainResumeDefault(p)
    \/ \E a \in Accounts, d \in Dims, l \in StoreLabels, c \in BOOLEAN :
          StoreTrainingSample(a, d, l, c) /\ UNCHANGED privacy

\* train_on_new_data is invoked again and again, and the event loop resumes
\* a coroutine whose asyncio.sleep(0.1) has elapsed
SpecProgress ==
    /\ Init /\ [][NextProgress]_vars
    /\ \A p \in Procs : WF_vars(TrainStartDefault(p)) /\ WF_vars(TrainResumeDefault(p))

\* the classifier alone, its methods called with any batch
NextModel ==
    \/ Predict
    \/ \E dims \in Batches, sgdFails \in BOOLEAN : PartialFitCall(dims, sgdFails)
    \/ SaveModelCall
    \/ ForeignSnapshot
    \/ Restart

SpecModel == Init /\ [][NextModel]_vars

\* a snapshot of a model trained on FeatureDim features, found at start-up
TrainedSnapshot ==
    SnapshotOf(FitStats(FitSgd(FitScaler(InitializeModel(FreshClassifier, FeatureDim),
                                         FeatureDim, 1), FeatureDim, 1), 1))

\* the ml routes start with or without a snapshot in the model directory
InitPrivacy ==
    /\ samples = <<>>
    /\ metadata = {}
    /\ is_training = FALSE
    /\ snapshot \in {NoSnapshot, TrainedSnapshot}
    /\ clf = LoadModel(FreshClassifier, snapshot)
    /\ pc = [p \in Procs |-> "idle"]
    /\ run = [p \in Procs |-> NoRun]
    /\ last = NoCall
    /\ allow_training_data \in [Accounts -> BOOLEAN]
    /\ background_tasks = <<>>
    /\ inp = NoRequest
    /\ res = NoResponse

\* the requests to POST /analyze and POST /privacy of routes/ml.py
NextPrivacy ==
    \/ \E u \in Users, s \in BOOLEAN, f \in BOOLEAN : AnalyzeText(u, s, f)
    \/ RunBackgroundTask
    \/ \E u \in Accounts, a \in BOOLEAN : UpdatePrivacySettings(u, a)

SpecPrivacy == InitPrivacy /\ [][NextPrivacy]_vars

\* one request to POST /analyze
InitAnalyze ==
    /\ ServiceInit
    /\ inp \in Requests
    /\ res = NoResponse

NextAnalyze == AnalyzeThreat

SpecAnalyze == InitAnalyze /\ [][NextAnalyze]_vars

\* the encrypted endpoint answering the same requests
NextEncrypted == AnalyzeThreatEncrypted

SpecEncrypted == InitAnalyze /\ [][NextEncrypted]_vars

------------------------------------------------------------------------------
(* Claims about the training service *)

TrainOps == {"train_start", "train_resume"}

Sleeping == {p \in Procs : pc[p] = "sleep"}

\* C1: no row whose consent_verified is false is ever given to partial_fit,
\* whichever entry point made the call
ConsentGatingEveryEntryPoint ==
    \A id \in last.fit : samples[id].consent_verified = TRUE

\* C2: at most one invocation of train_on_new_data is past the guard, the flag
\* is set exactly while one is; an invocation that starts while the flag is set
\* returns already_training, fits nothing and leaves the flag, the classifier
\* and the suspended run alone; a suspended run can always go on
MutualExclusion ==
    /\ [](/\ Cardinality(Sleeping) <= 1
          /\ is_training <=> Sleeping # {}
          /\ \A p \in Sleeping : ENABLED TrainResume(p))
    /\ [][(last'.op = "train_start" /\ is_training) =>
            /\ last'.returned.status = "already_training"
            /\ last'.fit = {} /\ last'.marked = {} /\ ~last'.saved
            /\ is_training'
            /\ UNCHANGED <<clf, samples, pc, run>>]_vars

\* C2 witness: an invocation was turned away while another one is suspended
RejectedWhileInFlight ==
    /\ last.op = "train_start"
    /\ last.returned.status = "already_training"
    /\ Sleeping # {}

\* C3: apply_feedback never runs partial_fit or save_model while a training
\* run is in flight
FeedbackRespectsFlag ==
    ~(last.op = "apply_feedback" /\ is_training /\ (last.fit # {} \/ last.saved))

\* the row as the run fetched it
FetchedRow(p, id) ==
    LET k == CHOOSE k \in 1..Len(run[p].fetched) : run[p].fetched[k].id = id
    IN  run[p].fetched[k].row

\* C4: a step of train_on_new_data fits and marks only rows that were untrained
\* and consent-verified when the run queried them, of the given account if one
\* is given, and leaves every row without consent as it was
BatchConsentFilter ==
    [][last'.op \in TrainOps =>
        /\ last'.marked \subseteq last'.fit
        /\ \A id \in last'.fit :
            /\ samples'[id].consent_verified = TRUE
            /\ last'.account # NoAccount => samples'[id].account = last'.account
            /\ IF last'.op = "train_start"
               THEN samples[id].trained = FALSE
               ELSE \E p \in Sleeping :
                      /\ id \in IdsOf(run[p].fetched)
                      /\ FetchedRow(p, id).trained = FALSE
                      /\ FetchedRow(p, id).consent_verified = TRUE
        /\ \A id \in 1..Len(samples) :
            samples[id].consent_verified = FALSE => samples'[id] = samples[id]]_vars

\* C4 witness: a run for one account marked a row trained while the table
\* holds a row without consent
MixedTableTrained ==
    /\ last.op \in TrainOps
    /\ last.account # NoAccount
    /\ last.marked # {}
    /\ \E id \in 1..Len(samples) : ~samples[id].consent_verified

------------------------------------------------------------------------------
(* Claims about the ensemble *)

\* the contribution the claim expects of classifier c for request r
ExpectedScore(r, c) ==
    CASE c = "ai" -> IF "ai" \in r.failed THEN 0 ELSE r.ai_confidence
      [] c = "intent" -> IF "intent" \in r.failed THEN 0
                         ELSE intent_threat_map(r.intent)
      [] c = "style" -> IF "style" \in r.failed THEN 50 ELSE 100 - r.style_score
      [] c = "url" -> IF "url" \in r.failed THEN 0 ELSE r.url_score
      [] c = "keyword" -> IF "keyword" \in r.failed THEN 0 ELSE r.keyword_score

\* C5: whichever classifiers raise, analyze_threat returns a valid risk_level
\* and risk_score, with the default contribution of each failed classifier and
\* the real score of the others, and raises nothing
ClassifierFailureResilience ==
    res.done =>
        /\ ~res.raised
        /\ res.risk_level \in {"LOW", "MEDIUM", "HIGH"}
        /\ res.risk_score \in 0..One
        /\ \A c \in Classifiers : res.component_scores[c] = ExpectedScore(inp, c)
        /\ res.intent = IF "intent" \in inp.failed THEN "unknown" ELSE inp.intent
        /\ res.risk_level = "LOW" <=> res.risk_score < 400000

\* C5 witness: a response although the style and the intent classifier raised
RespondedAfterFailures ==
    /\ res.done
    /\ inp.failed = {"intent", "style"}
    /\ res.component_scores.style = 50

\* C6: the returned risk_score lies in [0, 1], boosted or not
RangeInvariant == res.done => (0 <= res.risk_score /\ res.risk_score <= One)

\* C6 witness: a boosted score that the cap cut down to 1.0
BoostedScoreCapped ==
    /\ res.done
    /\ WeightedSum(res.component_scores) * 108 > One
    /\ res.risk_score = One

\* C7: exactly one level is assigned: HIGH iff s >= 0.7, MEDIUM iff
\* 0.4 <= s < 0.7, LOW iff s < 0.4
ThresholdPartition ==
    res.done =>
        /\ res.risk_level \in {"LOW", "MEDIUM", "HIGH"}
        /\ res.risk_level = "HIGH" <=> res.risk_score >= 700000
        /\ res.risk_level = "MEDIUM" <=>
              (400000 <= res.risk_score /\ res.risk_score < 700000)
        /\ res.risk_level = "LOW" <=> res.risk_score < 400000

\* C7 witness: a score of exactly 0.7, which is HIGH
ScoreOnHighThreshold ==
    res.done /\ res.risk_score = 700000 /\ res.risk_level = "HIGH"

\* the conditions the claim counts, read off the request
IndicatorCount(r) ==
    Bit("intent" \notin r.failed /\ r.intent \in {"phishing", "scam"})
    + Bit("url" \notin r.failed /\ r.url_score >= 80)
    + Bit("keyword" \notin r.failed /\ r.keyword_score >= 80)
    + Bit("ai" \notin r.failed /\ r.ai_confidence >= 80)

\* the scenario of the specification: ai 0.9, phishing, style risk 0.8,
\* url 0.9, keyword 0.9
Scenario(r) ==
    /\ r.failed = {} /\ r.ai_confidence = 90 /\ r.intent = "phishing"
    /\ r.style_score = 20 /\ r.url_score = 90 /\ r.keyword_score = 90

\* C8: the final score is min(1, 1.15 * sum) for three or four indicators,
\* min(1, 1.08 * sum) for two, the sum itself for at most one; the scenario
\* gives 1.0 and HIGH; a failed intent classifier is no indicator
BoostRule ==
    res.done =>
        LET n == IndicatorCount(inp)
            sum == WeightedSum(res.component_scores)
        IN  /\ n >= 3 => res.risk_score = Min(One, (sum * 115))
            /\ n = 2 => res.risk_score = Min(One, (sum * 108))
            /\ n <= 1 => res.risk_score = sum * 100
            /\ Scenario(inp) => (res.risk_score = One /\ res.risk_level = "HIGH")

\* C8 witness: the response to the scenario
ScenarioAnswered == res.done /\ Scenario(inp) /\ res.risk_score = One

------------------------------------------------------------------------------
(* Claims about the online model *)

\* C9: once feature_dim is set, a partial_fit with a batch of another
\* dimension raises and leaves the classifier as it was
DimensionMismatchIsHardError ==
    [][(last'.op = "partial_fit" /\ clf.feature_dim # NoDim
            /\ last'.fitdims # {clf.feature_dim}) =>
          (last'.fitRaised /\ clf' = clf)]_vars

\* C10: predict on a model that was never fitted does not raise, returns the
\* static classifier's intent and reports static_only
PredictFallsBackToStatic ==
    (last.op = "predict" /\ clf.model # "fit") =>
        /\ ~last.raised
        /\ last.intent = "static"
        /\ last.model_status = "static_only"

\* the steps that keep working on the classifier object of the state before
SameObject == {"predict", "partial_fit", "save_model"}

\* C11: a successful partial_fit adds the size of its batch to
\* training_samples, a failed one leaves the counter alone, and no other
\* method of the object changes it; so from a fresh model the counter is the
\* sum of the batch sizes of the successful calls and never decreases
PartialFitCounter ==
    [][last'.op \in SameObject =>
        clf'.training_samples =
            IF last'.op = "partial_fit" /\ ~last'.fitRaised
            THEN clf.training_samples + last'.fitsize
            ELSE clf.training_samples]_vars

\* C11 witness: a second successful partial_fit, the counter at the sum 1 + 1
CounterIsSumOfBatches ==
    /\ last.op = "partial_fit" /\ ~last.fitRaised /\ last.fitsize = 1
    /\ clf.training_samples = 2

\* C12: after two successful apply_feedback(id, label, retrain=true) in a row
\* the record is trained, carries the version the second partial_fit produced,
\* and training_samples has grown by exactly 2
FeedbackRetrainTwice ==
    (last.op = "apply_feedback" /\ last.twice) =>
        \A id \in last.fit :
            /\ samples[id].trained = TRUE
            /\ samples[id].model_version = clf.model_version
            /\ samples[id].model_version = VersionOf(last.base + 2)
            /\ clf.training_samples = last.base + 2

\* C12 witness: the second of two retraining feedbacks for one record returned
SecondFeedbackReturned ==
    /\ last.op = "apply_feedback" /\ last.twice
    /\ last.fit # {} /\ last.returned.status = "success"

\* the rows a run for the given scope could train on: untrained, with consent
Eligible(account) ==
    {id \in 1..Len(samples) :
        /\ samples[id].trained = FALSE
        /\ samples[id].consent_verified = TRUE
        /\ (account = NoAccount \/ samples[id].account = account)}

\* C13: a run that passes the guard and finds no untrained row with consent
\* returns no_data with samples_trained 0 (error if the query itself raised),
\* leaves the model, the snapshot, the metadata and the samples unchanged, and
\* is_training is false afterwards
NoDataRun ==
    [][(last'.op = "train_start" /\ ~is_training
            /\ Eligible(last'.account) = {}) =>
          /\ last'.returned.status \in {"no_data", "error"}
          /\ last'.returned.samples_trained = 0
          /\ last'.fit = {} /\ last'.marked = {} /\ ~last'.saved
          /\ UNCHANGED <<clf, snapshot, metadata, samples>>
          /\ ~is_training']_vars

\* C13 witness: no_data although the table holds an untrained row, which has
\* no consent
NoDataDespiteRows ==
    /\ last.op = "train_start"
    /\ last.returned.status = "no_data"
    /\ ~is_training
    /\ \E id \in 1..Len(samples) :
          ~samples[id].trained /\ ~samples[id].consent_verified

\* the active model_metadata rows of a scope
ActiveRows(account) == {m \in metadata : m.account = account /\ m.is_active}

\* C14: at most one model_metadata row is active per account scope, the
\* global scope (account_id null) included
ActiveMetadataInvariant ==
    \A account \in Accounts \cup {NoAccount} :
        Cardinality(ActiveRows(account)) <= 1

\* C14 witness: a second run of the global scope replaced the active row of
\* the first
ActiveRowReplaced ==
    /\ last.op = "train_resume" /\ last.returned.status = "success"
    /\ ActiveRows(NoAccount) # {}
    /\ \E m \in metadata : m.account = NoAccount /\ ~m.is_active

\* the step in which a run that finished its batches fails in save_model
SaveFailed(call) ==
    /\ call.op = "train_resume" /\ call.fit = {}
    /\ call.returned.status = "error" /\ ~call.saved

\* C15: when save_model fails the run returns status error, the classifier in
\* memory stays as the completed batches left it, and is_training is false
PersistenceFailure ==
    [][SaveFailed(last') =>
          /\ clf' = clf
          /\ ~is_training'
          /\ \A p \in Sleeping : pc'[p] = "idle"]_vars

\* C15 witness: a run trained a row and then could not write the snapshot
TrainedButNotSaved ==
    /\ SaveFailed(last)
    /\ clf.training_samples > 0 /\ clf.model = "fit"
    /\ ~snapshot.exists

\* C16: construction loads the latest snapshot whole or, when loading fails
\* at any point, leaves the classifier as __init__ set it: model, scaler,
\* feature_dim and model_version unset, training_samples 0
SnapshotLoadAllOrNothing ==
    last.op = "restart" =>
        \/ clf = FreshClassifier
        \/ /\ snapshot.exists
           /\ snapshot.present = Len(SnapshotKeys)
           /\ SnapshotOf(clf) = snapshot

\* C17: a run that passed the guard returns in the end, with status success,
\* no_data or error, and is_training is false once it has returned, whatever
\* failed; the flag is never left set by a finished run
TrainReturnsStructured ==
    /\ [][(last'.op \in TrainOps /\ ~(last'.op = "train_start" /\ is_training)) =>
            IF \E p \in Procs : pc'[p] = "sleep"
            THEN is_training' /\ last'.returned = NoReturn
            ELSE /\ last'.returned.status \in {"success", "no_data", "error"}
                 /\ ~is_training']_vars
    /\ [](Sleeping = {} => ~is_training)
    /\ \A p \in Procs : (pc[p] = "sleep") ~> (pc[p] = "idle")

\* C17 witness: a run saved the model, failed in a metadata write, returned
\* error and left the flag cleared
ReturnedErrorFlagCleared ==
    /\ last.op = "train_resume"
    /\ last.returned.status = "error" /\ last.saved
    /\ ~is_training /\ Sleeping = {}

------------------------------------------------------------------------------
(* Claims about the ml routes *)

\* C18: a training sample is inserted only for an account whose
\* allow_training_data is true at that moment, and every sample analyze_text
\* stores has consent_verified true
NoSampleAfterRevocation ==
    /\ (last.op = "store" /\ last.returned.status = "success") =>
          allow_training_data[samples[Len(samples)].account]
    /\ \A id \in 1..Len(samples) : samples[id].consent_verified = TRUE
    /\ \A k \in 1..Len(background_tasks) : background_tasks[k].consent_verified = TRUE

\* C19: the weights of the analyze endpoint are 0.35, 0.35, 0.10, 0.12 and
\* 0.08, they are the ones every response is computed with, and the weight
\* table of each analyze code path sums to 1.0
WeightInvariant ==
    /\ WEIGHTS = [ai |-> 35, intent |-> 35, style |-> 10, url |-> 12, keyword |-> 8]
    /\ WeightTotal(WEIGHTS) = 100
    /\ WeightTotal(EncryptedWEIGHTS) = 100
    /\ res.done =>
          LET c == res.component_scores
              sum == 35 * c.ai + 35 * c.intent + 10 * c.style + 12 * c.url
                     + 8 * c.keyword
          IN  /\ sum <= 10000
              /\ res.risk_score \in {sum * 100, Min(One, sum * 108), Min(One, sum * 115)}

\* C19 witness: a response with every component at its largest value
AllComponentsAtMaximum ==
    /\ res.done
    /\ res.component_scores =
          [ai |-> 100, intent |-> 90, style |-> 100, url |-> 100, keyword |-> 100]

------------------------------------------------------------------------------
(* Claims about the SDK *)

\* C20: for every response of the analyze endpoint exactly one of
\* is_high_risk, is_medium_risk, is_low_risk is true of the SDK's
\* AnalysisResult, the one that matches the server's risk_level
SdkHelpersAgreeWithServer ==
    res.done =>
        LET r == AnalysisResult(res)
        IN  /\ is_high_risk(r) <=> res.risk_level = "HIGH"
            /\ is_medium_risk(r) <=> res.risk_level = "MEDIUM"
            /\ is_low_risk(r) <=> res.risk_level = "LOW"
            /\ Bit(is_high_risk(r)) + Bit(is_medium_risk(r)) + Bit(is_low_risk(r)) = 1

------------------------------------------------------------------------------
(* Claims about the batches of a run *)

\* the ids a suspended run has fetched and not yet reached
Remaining(p) ==
    {run[p].fetched[k].id : k \in {j \in 1..Len(run[p].fetched) : j >= run[p].i}}

\* C21: a step of a run marks rows only when the fit of their batch succeeded,
\* all rows of that batch, with the version that fit returned; when a batch
\* fails its rows and those of the later batches stay untrained; no sample is
\* fitted twice across a failed run and its retries
PerBatchMarking ==
    /\ [][last'.op \in TrainOps =>
            /\ last'.marked # {} =>
                  /\ ~last'.fitRaised
                  /\ last'.marked = last'.fit
                  /\ \A id \in last'.marked :
                        /\ samples'[id].trained = TRUE
                        /\ samples'[id].model_version = clf'.model_version
            /\ (last'.returned.status = "error" /\ last'.fit # {}) =>
                  /\ \A id \in last'.fit : samples'[id].trained = FALSE
                  /\ \A p \in Sleeping : \A id \in Remaining(p) :
                        samples'[id].trained = FALSE]_vars
    /\ [](clf.model_seen <= Len(samples))

------------------------------------------------------------------------------
(* Claims about the state of the online model *)

\* C22: the model a predict call works on is never one whose scaler has
\* absorbed samples that the classifier weights and the counters have not
PredictSeesConsistentModel ==
    last.op = "predict" =>
        /\ clf.scaler_seen = clf.model_seen
        /\ clf.scaler_seen = clf.training_samples
        /\ clf.scaler_dim = clf.model_dim

\* the step in which a run ends after its last batch: no fit, a return
RunEnds(call) ==
    call.op = "train_resume" /\ call.fit = {} /\ call.returned # NoReturn

\* C23: a run saves the model once, in its last step, after every fetched
\* batch was fitted and marked; only after the save it deactivates the active
\* record of its scope, and then inserts one active record with the
\* classifier's model_version, training_samples and feature_dim
EndOfRunOrdering ==
    [][/\ (last'.op \in TrainOps /\ last'.saved) => RunEnds(last')
       /\ RunEnds(last') =>
            /\ \A p \in Sleeping :
                  /\ run[p].i > Len(run[p].fetched)
                  /\ run[p].trained_count = Len(run[p].fetched)
            /\ clf' = clf
            /\ IF last'.saved THEN snapshot' = SnapshotOf(clf)
                              ELSE snapshot' = snapshot /\ metadata' = metadata
            /\ \A m \in metadata' \ metadata :
                  /\ last'.saved
                  /\ m.account = last'.account
                  /\ m.is_active => last'.returned.status = "success"
            /\ \A m \in metadata' : m.account # last'.account => m \in metadata
            /\ last'.returned.status = "success" =>
                  /\ last'.saved
                  /\ {m \in metadata' : m.account = last'.account /\ m.is_active}
                        = {[account |-> last'.account,
                            model_version |-> clf.model_version,
                            training_samples |-> clf.training_samples,
                            feature_dim |-> clf.feature_dim,
                            is_active |-> TRUE]}
                  /\ \A m \in metadata : m.account = last'.account =>
                        [m EXCEPT !.is_active = FALSE] \in metadata']_vars

\* C23 witness: a run for one account ended with success, the snapshot and the
\* active record carry the classifier's version
RunFinishedInOrder ==
    /\ RunEnds(last) /\ last.returned.status = "success"
    /\ last.account = "acct1"
    /\ snapshot = SnapshotOf(clf)
    /\ \E m \in metadata :
          m.is_active /\ m.account = "acct1" /\ m.model_version = clf.model_version

\* Uninitialized, Initialized, Trained
Phase(c) == IF c.model = None THEN 0 ELSE IF c.model = "unfit" THEN 1 ELSE 2

\* C24: predict and partial_fit move the model forward only, from
\* Uninitialized to Initialized to Trained; once feature_dim is set they do
\* not change it, and once the classifier and the scaler exist they are not
\* replaced by new ones
ModelLifecycle ==
    [][last'.op \in {"predict", "partial_fit"} =>
        /\ Phase(clf') >= Phase(clf)
        /\ clf.feature_dim # NoDim => clf'.feature_dim = clf.feature_dim
        /\ clf.model # None =>
              /\ clf'.model_seen >= clf.model_seen
              /\ clf'.model_version # <<"v0_init", 0>>
                    \/ clf.model_version = <<"v0_init", 0>>
        /\ clf.scaler # None =>
              /\ clf'.scaler # None
              /\ clf'.scaler_seen >= clf.scaler_seen
              /\ clf.scaler = "fit" => clf'.scaler = "fit"]_vars

\* C24 witness: a model initialized by predict with 19 features was trained
\* on a batch of 17 and kept its feature_dim
TrainedAfterPredictInit ==
    /\ last.op = "partial_fit" /\ ~last.fitRaised
    /\ clf.model = "fit" /\ clf.model_dim = 17
    /\ clf.feature_dim = FeatureDim

\* ceil(n / d)
CeilDiv(n, d) == (n + d - 1) \div d

\* the ids of the rows at positions from..to of a fetched list
Slice(fetched, from, to) ==
    {fetched[k].id : k \in from..Min(to, Len(fetched))}

\* a suspended run has fitted a whole number of batches: the first
\* batch_count * batch_size rows it fetched, in creation order
RunInStep(r) ==
    LET n == Len(r.fetched)
    IN  /\ r.batch_count >= 1
        /\ r.i = 1 + r.batch_count * r.batch_size
        /\ r.trained_count = Min(n, r.batch_count * r.batch_size)
        /\ \A j, k \in 1..n : j < k => r.fetched[j].id < r.fetched[k].id

------------------------------------------------------------------------------
(* Claims about the encrypted analyze endpoint *)

\* C26: for the same five classifier outputs the encrypted endpoint returns
\* the risk_score and the risk_level that analyze.py returns
AnalyzePathsEquivalent ==
    res.done =>
        /\ res.risk_score = Analysis(inp, res.stored).risk_score
        /\ res.risk_level = Analysis(inp, res.stored).risk_level

------------------------------------------------------------------------------
(* Claims about corrections and progress *)

\* C27: once apply_feedback(id, L, retrain=false) has corrected a row, a
\* step that marks the row trained has given it to partial_fit with the
\* label L that storage holds
FeedbackCorrectionKept ==
    \A id \in last.marked :
        samples[id].feedback_corrected =>
            \A pair \in last.fitlabels :
                pair[1] = id => pair[2] = samples[id].label

\* row id is stored, untrained and consenting
Waiting(id) ==
    /\ id <= Len(samples)
    /\ Selected(samples[id], NoAccount)

\* row id is marked trained
Trained(id) == id <= Len(samples) /\ samples[id].trained

\* partial_fit of row id alone would succeed on the model as it is
FitsAlone(id) == ~PartialFit(clf, <<samples[id].dim>>, FALSE).raised

\* C28: with train_on_new_data invoked again and again, an eligible row that
\* partial_fit accepts is eventually marked trained, whatever other rows
\* are waiting with it
TrainingProgress ==
    \A id \in 1..MaxSamples :
        (Waiting(id) /\ FitsAlone(id)) ~> Trained(id)

------------------------------------------------------------------------------
(* Claims about what a call leaves behind *)

\* C29: when train_on_new_data returns after marking rows, or
\* apply_feedback returns after marking its row, save_model has written a
\* snapshot of the classifier that was fitted with them
TrainedCoveredBySnapshot ==
    [][/\ \A p \in Procs :
             pc[p] = "sleep" /\ pc'[p] = "idle" /\ run[p].trained_count > 0 =>
                 last'.saved /\ snapshot' = SnapshotOf(clf')
       /\ last'.op = "apply_feedback" /\ last'.marked # {} =>
             last'.saved /\ snapshot' = SnapshotOf(clf')]_vars

\* C30: whatever train_on_new_data returns, success, no_data or error, its
\* samples_trained is the number of rows the run marked trained: the rows
\* of the batches before its last step, a returning step marks none
ReportedCountAccurate ==
    [][/\ \A p \in Procs :
             pc[p] = "sleep" /\ pc'[p] = "idle" =>
                 last'.returned.samples_trained = run[p].trained_count
       /\ last'.op = "train_start" /\ last'.returned.status # "none" =>
             last'.returned.samples_trained = Cardinality(last'.marked)]_vars

====
